---- MODULE Spec2Model ----
(***************************************************************************)
(* A model of libwyag.py: the KVLM codec (kvlm_parse, kvlm_serialize) and  *)
(* the object store (object_hash, object_write, object_read, repo_file,    *)
(* repo_dir).  Byte strings are sequences of one-character strings and     *)
(* cursors keep Python's 0-based values, -1 meaning "not found".           *)
(***************************************************************************)
EXTENDS Integers, Sequences, FiniteSets, TLC

VARIABLES
    raw,        \* kvlm_parse: the payload being parsed
    start,      \* kvlm_parse: the cursor of the current call
    end,        \* kvlm_parse: the value-extent cursor of the while loop
    dct,        \* kvlm_parse: the OrderedDict built so far (header entries)
    depth,      \* kvlm_parse: number of nested kvlm_parse calls
    kpc,        \* kvlm_parse: position of the run
    ret,        \* kvlm_parse: the returned document
    fields,     \* history: the (key, raw value text) pairs consumed, in order
    ser,        \* kvlm_serialize(ret)
    reparsed,   \* kvlm_parse(ser)
    dirs,       \* object store: the two-character prefix directories
    files,      \* object store: path -> file bytes
    hashed,     \* the latest object_hash call and its result
    got,        \* the latest object_read call and its result
    nOps,       \* number of object_hash calls made
    planted,    \* the frame placed in the store before object_read
    target,     \* the record the concurrent writers write
    wpc,        \* writer -> position in object_write
    rpc,        \* reader position in object_read
    rpath,      \* reader: the value repo_file returned
    rgot,       \* reader: the result of the latest object_read
    rafter,     \* history: the read began after some object_write returned
    nReads      \* number of object_read calls the reader began

kvars == <<raw, start, end, dct, depth, kpc, ret, fields, ser, reparsed>>
svars == <<dirs, files, hashed, got, nOps, planted>>
rvars == <<target, wpc, rpc, rpath, rgot, rafter, nReads>>
vars == <<kvars, svars, rvars>>

----------------------------------------------------------------------------
(* Bounds of the model *)

MaxLen == 5
MaxChunks == 6
MaxDepth == 7
MaxOps == 2
MaxClaim == 11
MaxPlantLen == 2
MaxReads == 2

----------------------------------------------------------------------------
(* Bytes *)

SP == " "
NL == "\n"
NUL == "NUL"

\* bytes.find(b, from), from >= 0: the least 0-based index >= from holding b, else -1
Find(s, b, from) ==
    LET hits == {i \in from..(Len(s) - 1) : s[i + 1] = b}
    IN IF hits = {} THEN -1 ELSE CHOOSE i \in hits : \A j \in hits : i <= j

\* Python's s[i:j] for i >= 0 and any j: a negative j counts from the end
Slice(s, i, j) ==
    LET n == Len(s)
        jj == IF j < 0 THEN (IF n + j < 0 THEN 0 ELSE n + j) ELSE (IF j > n THEN n ELSE j)
    IN IF i >= jj THEN <<>> ELSE SubSeq(s, i + 1, jj)

\* v.replace(b'\n ', b'\n'): left to right, non-overlapping
RECURSIVE Unfold(_)
Unfold(s) ==
    IF s = <<>> THEN <<>>
    ELSE IF Len(s) >= 2 /\ s[1] = NL /\ s[2] = SP
         THEN <<NL>> \o Unfold(SubSeq(s, 3, Len(s)))
         ELSE <<s[1]>> \o Unfold(Tail(s))

\* v.replace(b'\n', b'\n ')
RECURSIVE Fold(_)
Fold(s) ==
    IF s = <<>> THEN <<>>
    ELSE IF s[1] = NL THEN <<NL, SP>> \o Fold(Tail(s))
         ELSE <<s[1]>> \o Fold(Tail(s))

----------------------------------------------------------------------------
(* kvlm_parse, statement by statement *)

NoDoc == [fields |-> <<>>, msg |-> <<>>]

KvlmSpc(r, s) == Find(r, SP, s)
KvlmNl(r, s) == Find(r, NL, s)

\* the test of line 368: the header block has ended
KvlmAtMessage(r, s) == KvlmSpc(r, s) < 0 \/ KvlmNl(r, s) < KvlmSpc(r, s)

\* one iteration of the while loop: the next value of end (line 378)
KvlmScanNext(r, e) == Find(r, NL, e + 1)

\* raw[end+1] raises IndexError (a negative index never arises: end >= -1)
KvlmScanIndexError(r, e) == e + 1 >= Len(r)

\* the loop test of line 379: the next line is a continuation
KvlmScanContinues(r, e) == r[e + 2] = SP

\* lines 372 and 383
KvlmKey(r, s) == Slice(r, s, KvlmSpc(r, s))
KvlmRawValue(r, s, e) == Slice(r, KvlmSpc(r, s) + 1, e)
KvlmValue(r, s, e) == Unfold(KvlmRawValue(r, s, e))

\* dct[key] = value, overwriting what the key held
KvlmInsertBad(d, key, value) ==
    IF \E i \in 1..Len(d) : d[i].key = key
    THEN LET i == CHOOSE i \in 1..Len(d) : d[i].key = key
         IN [d EXCEPT ![i] = [key |-> key, list |-> FALSE, vals |-> <<value>>]]
    ELSE Append(d, [key |-> key, list |-> FALSE, vals |-> <<value>>])

\* lines 386-392: a list is appended to, a single value becomes a list of
\* two, a new key is added after the keys already there
KvlmInsert(d, key, value) ==
    IF \E i \in 1..Len(d) : d[i].key = key
    THEN LET i == CHOOSE i \in 1..Len(d) : d[i].key = key
         IN IF d[i].list
            THEN [d EXCEPT ![i].vals = Append(@, value)]
            ELSE [d EXCEPT ![i] = [key |-> key, list |-> TRUE, vals |-> <<d[i].vals[1], value>>]]
    ELSE Append(d, [key |-> key, list |-> FALSE, vals |-> <<value>>])

\* the whole while loop from a given end; "hang" when it comes back to a
\* cursor value it already had (it then repeats for ever)
RECURSIVE KvlmScanFrom(_, _, _)
KvlmScanFrom(r, e, seen) ==
    LET e1 == KvlmScanNext(r, e)
    IN IF KvlmScanIndexError(r, e1) THEN [outcome |-> "IndexError", end |-> e1]
       ELSE IF ~KvlmScanContinues(r, e1) THEN [outcome |-> "ok", end |-> e1]
       ELSE IF e1 \in seen THEN [outcome |-> "hang", end |-> e1]
       ELSE KvlmScanFrom(r, e1, seen \cup {e1})

\* kvlm_parse(raw, start, dct) as a function, nested calls counted
RECURSIVE KvlmRun(_, _, _, _)
KvlmRun(r, s, d, n) ==
    IF KvlmAtMessage(r, s)
    THEN IF KvlmNl(r, s) = s
         THEN [outcome |-> "ok", doc |-> [fields |-> d, msg |-> Slice(r, s + 1, Len(r))]]
         ELSE [outcome |-> "AssertionError", doc |-> NoDoc]
    ELSE LET sc == KvlmScanFrom(r, s, {})
         IN IF sc.outcome # "ok" THEN [outcome |-> sc.outcome, doc |-> NoDoc]
            ELSE IF n >= MaxDepth THEN [outcome |-> "RecursionError", doc |-> NoDoc]
            ELSE KvlmRun(r, sc.end + 1, KvlmInsert(d, KvlmKey(r, s), KvlmValue(r, s, sc.end)), n + 1)

KvlmParse(r) == KvlmRun(r, 0, <<>>, 0)

----------------------------------------------------------------------------
(* kvlm_serialize *)

RECURSIVE SerializeVals(_, _)
SerializeVals(k, vs) ==
    IF vs = <<>> THEN <<>>
    ELSE k \o <<SP>> \o Fold(Head(vs)) \o <<NL>> \o SerializeVals(k, Tail(vs))

RECURSIVE SerializeFields(_)
SerializeFields(d) ==
    IF d = <<>> THEN <<>>
    ELSE SerializeVals(Head(d).key, Head(d).vals) \o SerializeFields(Tail(d))

KvlmSerialize(doc) == SerializeFields(doc.fields) \o <<NL>> \o doc.msg \o <<NL>>

----------------------------------------------------------------------------
(* Payloads given to kvlm_parse *)

Alphabet == {"a", "b", SP, NL}
Chunks == {<<"a", SP, NL>>, <<"b", SP, NL>>, <<NL>>, <<SP>>}

RECURSIVE ByteStrings(_)
ByteStrings(n) ==
    IF n = 0 THEN {<<>>}
    ELSE LET S == ByteStrings(n - 1) IN S \cup {Append(s, b) : s \in S, b \in Alphabet}

RECURSIVE ChunkStrings(_)
ChunkStrings(n) ==
    IF n = 0 THEN {<<>>}
    ELSE LET S == ChunkStrings(n - 1) IN S \cup {s \o c : s \in S, c \in Chunks}

\* every byte string of at most MaxLen bytes, and every text of at most
\* MaxChunks header lines, blank lines and leading spaces
RawInputs == ByteStrings(MaxLen) \cup ChunkStrings(MaxChunks)

----------------------------------------------------------------------------
(* The states of the other components while one component runs *)

NoFiles == [p \in {} |-> <<>>]
NoObj == [fmt |-> <<>>, blobdata |-> <<>>, kvlm |-> NoDoc]
NoSha == [prefix |-> -1, rest |-> <<>>]
NoHash == [called |-> FALSE, fmt |-> <<>>, data |-> <<>>, outcome |-> "none",
           sha |-> NoSha, again |-> FALSE]
NoRead == [called |-> FALSE, sha |-> NoSha, outcome |-> "none", obj |-> NoObj,
           absent |-> FALSE, hadDir |-> FALSE, changed |-> FALSE]
NoPlant == [fmt |-> <<>>, size |-> 0, payload |-> <<>>]
NoParse == [outcome |-> "none", doc |-> NoDoc]

KvlmIdle ==
    /\ raw = <<>> /\ start = 0 /\ end = 0 /\ dct = <<>> /\ depth = 0
    /\ kpc = "idle" /\ ret = NoDoc /\ fields = <<>> /\ ser = <<>> /\ reparsed = NoParse

StoreIdle ==
    /\ dirs = {} /\ files = NoFiles /\ hashed = NoHash
    /\ got = NoRead /\ nOps = 0 /\ planted = NoPlant

RaceIdle ==
    /\ target = NoObj /\ wpc = <<>> /\ rpc = "idle" /\ rpath = "unset"
    /\ rgot = NoRead /\ rafter = FALSE /\ nReads = 0

----------------------------------------------------------------------------
(* The KVLM codec as a state machine: one kvlm_parse run on a payload,    *)
(* then kvlm_serialize of its result, then kvlm_parse of that             *)

InitKvlm ==
    /\ raw \in RawInputs
    /\ start = 0 /\ end = 0 /\ dct = <<>> /\ depth = 0
    /\ kpc = "call" /\ ret = NoDoc /\ fields = <<>> /\ ser = <<>> /\ reparsed = NoParse
    /\ StoreIdle /\ RaceIdle

\* lines 365-372: a call of kvlm_parse up to the while loop
KvlmEnter ==
    /\ kpc = "call"
    /\ IF KvlmAtMessage(raw, start)
       THEN IF KvlmNl(raw, start) = start
            THEN /\ ret' = [fields |-> dct, msg |-> Slice(raw, start + 1, Len(raw))]
                 /\ kpc' = "done"
                 /\ end' = end
            ELSE /\ kpc' = "AssertionError"
                 /\ UNCHANGED <<ret, end>>
       ELSE /\ end' = start
            /\ kpc' = "scan"
            /\ ret' = ret
    /\ UNCHANGED <<raw, start, dct, depth, fields, ser, reparsed, svars, rvars>>

\* lines 377-379: one iteration of the while loop
KvlmScan ==
    /\ kpc = "scan"
    /\ end' = KvlmScanNext(raw, end)
    /\ kpc' = IF KvlmScanIndexError(raw, end') THEN "IndexError"
              ELSE IF KvlmScanContinues(raw, end') THEN "scan"
              ELSE "insert"
    /\ UNCHANGED <<raw, start, dct, depth, ret, fields, ser, reparsed, svars, rvars>>

\* lines 383-394: decode the value, insert it, call kvlm_parse at end+1
KvlmRecurse ==
    /\ kpc = "insert"
    /\ fields' = Append(fields, [key |-> KvlmKey(raw, start),
                                 text |-> KvlmRawValue(raw, start, end)])
    /\ dct' = KvlmInsert(dct, KvlmKey(raw, start), KvlmValue(raw, start, end))
    /\ IF depth >= MaxDepth
       THEN /\ kpc' = "RecursionError"
            /\ UNCHANGED <<start, depth>>
       ELSE /\ start' = end + 1
            /\ depth' = depth + 1
            /\ kpc' = "call"
    /\ UNCHANGED <<raw, end, ret, ser, reparsed, svars, rvars>>

\* GitCommit.serialize of the parsed document
KvlmSerializeCall ==
    /\ kpc = "done"
    /\ ser' = KvlmSerialize(ret)
    /\ kpc' = "serialized"
    /\ UNCHANGED <<raw, start, end, dct, depth, ret, fields, reparsed, svars, rvars>>

\* GitCommit.deserialize of the serialized bytes
KvlmReparse ==
    /\ kpc = "serialized"
    /\ reparsed' = KvlmParse(ser)
    /\ kpc' = "reparsed"
    /\ UNCHANGED <<raw, start, end, dct, depth, ret, fields, ser, svars, rvars>>

NextKvlm == KvlmEnter \/ KvlmScan \/ KvlmRecurse \/ KvlmSerializeCall \/ KvlmReparse

SpecKvlm == InitKvlm /\ [][NextKvlm]_vars

\* the parser is one synchronous thread: it always takes its next step
FairSpecKvlm == SpecKvlm /\ WF_vars(NextKvlm)

KvlmFinal == {"done", "serialized", "reparsed", "AssertionError", "IndexError", "RecursionError"}

\* the state machine and the function KvlmParse agree on every finished run
KvlmRunAgrees ==
    /\ kpc \in {"done", "serialized", "reparsed"} => KvlmParse(raw) = [outcome |-> "ok", doc |-> ret]
    /\ kpc \in {"AssertionError", "IndexError", "RecursionError"} => KvlmParse(raw).outcome = kpc

----------------------------------------------------------------------------
(* Frames, addresses and compression *)

Blob == <<"b", "l", "o", "b">>
Tree == <<"t", "r", "e", "e">>
Commit == <<"c", "o", "m", "m", "i", "t">>
Tag == <<"t", "a", "g">>
KnownTags == {Blob, Tree, Commit, Tag}

DigitChars == <<"0", "1", "2", "3", "4", "5", "6", "7", "8", "9">>

\* str(n).encode(): the decimal digits of n >= 0
RECURSIVE Str(_)
Str(n) == IF n < 10 THEN <<DigitChars[n + 1]>> ELSE Str(n \div 10) \o <<DigitChars[(n % 10) + 1]>>

DigitValue(c) == CHOOSE d \in 0..9 : DigitChars[d + 1] = c

RECURSIVE DigitsValue(_, _)
DigitsValue(s, acc) == IF s = <<>> THEN acc ELSE DigitsValue(Tail(s), 10 * acc + DigitValue(Head(s)))

RECURSIVE StripLeft(_)
StripLeft(s) == IF s # <<>> /\ Head(s) = SP THEN StripLeft(Tail(s)) ELSE s

\* int(s.decode("ascii")): surrounding blanks dropped, then decimal digits;
\* anything else is a ValueError
ParseInt(s) ==
    LET t == StripLeft(s)
    IN IF t # <<>> /\ \A i \in 1..Len(t) : \E d \in 1..10 : DigitChars[d] = t[i]
       THEN [ok |-> TRUE, val |-> DigitsValue(t, 0)]
       ELSE [ok |-> FALSE, val |-> 0]

\* line 260: the frame of a payload
Frame(fmt, data) == fmt \o <<SP>> \o Str(Len(data)) \o <<NUL>> \o data

\* hashlib.sha1(result).hexdigest(): an address that determines its frame
\* (no collisions); sha[0:2] is a bucket two frames may share
Sha1(result) == [prefix |-> Len(result) % 2, rest |-> result]

\* zlib.compress / zlib.decompress: a stream is a header and the data; an
\* empty file, or one without the header, is no stream
Compress(b) == <<"zlib">> \o b
Decompress(z) ==
    IF z # <<>> /\ Head(z) = "zlib" THEN [ok |-> TRUE, data |-> Tail(z)]
    ELSE [ok |-> FALSE, data |-> <<>>]

----------------------------------------------------------------------------
(* Records *)

Failed(outcome) == [outcome |-> outcome, obj |-> NoObj]

\* GitObject.__init__ with data: GitBlob.deserialize, GitCommit.deserialize
NewBlob(data) == [outcome |-> "ok", obj |-> [fmt |-> Blob, blobdata |-> data, kvlm |-> NoDoc]]
NewCommit(data) ==
    LET p == KvlmParse(data)
    IN IF p.outcome = "ok"
       THEN [outcome |-> "ok", obj |-> [fmt |-> Commit, blobdata |-> <<>>, kvlm |-> p.doc]]
       ELSE Failed(p.outcome)

\* the match of object_hash; GitTree and GitTag are names no line defines
HashDispatch(fmt, data) ==
    IF fmt = Commit THEN NewCommit(data)
    ELSE IF fmt = Tree THEN Failed("NameError")
    ELSE IF fmt = Tag THEN Failed("NameError")
    ELSE IF fmt = Blob THEN NewBlob(data)
    ELSE Failed("UnknownType")

\* the match of object_read and the construction of line 254
ReadDispatch(fmt, data) ==
    IF fmt = Commit THEN NewCommit(data)
    ELSE IF fmt = Tree THEN Failed("NameError")
    ELSE IF fmt = Tag THEN Failed("NameError")
    ELSE IF fmt = Blob THEN NewBlob(data)
    ELSE Failed("UnknownType")

\* GitBlob.serialize, GitCommit.serialize
ObjSerialize(obj) == IF obj.fmt = Blob THEN obj.blobdata ELSE KvlmSerialize(obj.kvlm)

----------------------------------------------------------------------------
(* The store: repo_dir, repo_file, object_write, object_read *)

\* repo_dir(repo, "objects", sha[0:2], mkdir): found is FALSE for None
RepoDir(d, prefix, mkdir) ==
    IF prefix \in d THEN [found |-> TRUE, dirs |-> d]
    ELSE IF mkdir THEN [found |-> TRUE, dirs |-> d \cup {prefix}]
    ELSE [found |-> FALSE, dirs |-> d]

\* repo_file(repo, "objects", sha[0:2], sha[2:], mkdir): the path, or None
RepoFile(d, sha, mkdir) == RepoDir(d, sha.prefix, mkdir)

WriteAppend(f, path, bytes) ==
    [q \in DOMAIN f \cup {path} |->
        IF q = path THEN (IF path \in DOMAIN f THEN f[path] \o bytes ELSE bytes) ELSE f[q]]

\* lines 268-271: create the file only when nothing exists at the path
WriteIfAbsent(f, path, bytes) ==
    IF path \in DOMAIN f THEN f
    ELSE [q \in DOMAIN f \cup {path} |-> IF q = path THEN bytes ELSE f[q]]

\* object_write(obj, repo)
ObjectWrite(obj, d, f) ==
    LET result == Frame(obj.fmt, ObjSerialize(obj))
        sha == Sha1(result)
        rf == RepoFile(d, sha, TRUE)
    IN [sha |-> sha, dirs |-> rf.dirs, files |-> WriteIfAbsent(f, sha, Compress(result))]

LengthMatchesOffByOne(size, r, y) == size = Len(r) - y

\* line 239: the declared size against the bytes after the NUL
LengthMatches(size, r, y) == size = Len(r) - y - 1

\* lines 229-254: decompress, check the frame, build the record
DecodeStored(bytes) ==
    LET z == Decompress(bytes)
        r == z.data
        x == Find(r, SP, 0)
        y == Find(r, NUL, x)
        size == ParseInt(Slice(r, x, y))
    IN IF ~z.ok THEN Failed("zlib.error")
       ELSE IF ~size.ok THEN Failed("ValueError")
       ELSE IF ~LengthMatches(size.val, r, y) THEN Failed("Malformed")
       ELSE ReadDispatch(Slice(r, 0, x), Slice(r, y + 1, Len(r)))

\* object_read(repo, sha): os.path.isfile(None) raises TypeError
ObjectReadResult(sha, d, f) ==
    LET rf == RepoFile(d, sha, FALSE)
        res == IF ~rf.found THEN Failed("TypeError")
               ELSE IF sha \notin DOMAIN f THEN Failed("NotFound")
               ELSE DecodeStored(f[sha])
    IN [outcome |-> res.outcome, obj |-> res.obj, dirs |-> rf.dirs]

----------------------------------------------------------------------------
(* hash-object -w and cat-file, one call after another *)

Payloads == {<<>>, <<"a">>, <<NL>>, <<NL, "a">>, <<"a", SP, "b", NL, NL, "a">>}

Addresses == {Sha1(Frame(t, p)) : t \in KnownTags, p \in Payloads}

InitStore ==
    /\ dirs = {} /\ files = NoFiles /\ hashed = NoHash
    /\ got = NoRead /\ nOps = 0 /\ planted = NoPlant
    /\ KvlmIdle /\ RaceIdle

\* object_hash(fd, fmt, repo) with fd holding data
ObjectHash(fmt, data) ==
    /\ nOps < MaxOps
    /\ nOps' = nOps + 1
    /\ LET c == HashDispatch(fmt, data)
           w == ObjectWrite(c.obj, dirs, files)
           again == hashed.called /\ hashed.outcome = "ok" /\ hashed.fmt = fmt /\ hashed.data = data
       IN IF c.outcome = "ok"
          THEN /\ dirs' = w.dirs
               /\ files' = w.files
               /\ hashed' = [called |-> TRUE, fmt |-> fmt, data |-> data, outcome |-> "ok",
                             sha |-> w.sha, again |-> again]
          ELSE /\ UNCHANGED <<dirs, files>>
               /\ hashed' = [called |-> TRUE, fmt |-> fmt, data |-> data, outcome |-> c.outcome,
                             sha |-> NoSha, again |-> again]
    /\ UNCHANGED <<got, planted, kvars, rvars>>

\* object_read(repo, sha)
ObjectRead(sha) ==
    /\ LET r == ObjectReadResult(sha, dirs, files)
       IN /\ got' = [called |-> TRUE, sha |-> sha, outcome |-> r.outcome, obj |-> r.obj,
                     absent |-> sha \notin DOMAIN files, hadDir |-> sha.prefix \in dirs,
                     changed |-> r.dirs # dirs]
          /\ dirs' = r.dirs
    /\ UNCHANGED <<files, hashed, nOps, planted, kvars, rvars>>

NextStore ==
    \/ \E fmt \in KnownTags, data \in Payloads : ObjectHash(fmt, data)
    \/ \E sha \in Addresses \cup DOMAIN files : ObjectRead(sha)

SpecStore == InitStore /\ [][NextStore]_vars

----------------------------------------------------------------------------
(* object_read of a stored frame of any shape *)

PlantBytes == {"a", SP, NUL}

RECURSIVE PlantStrings(_)
PlantStrings(n) ==
    IF n = 0 THEN {<<>>}
    ELSE LET S == PlantStrings(n - 1) IN S \cup {Append(s, b) : s \in S, b \in PlantBytes}

PlantTags == KnownTags \cup {<<"x">>, <<>>}

\* the bytes of a frame whose length field says size
PlantedFrame(p) == p.fmt \o <<SP>> \o Str(p.size) \o <<NUL>> \o p.payload

InitFrame ==
    /\ planted \in [fmt : PlantTags, size : 0..MaxClaim, payload : PlantStrings(MaxPlantLen)]
    /\ dirs = {Sha1(PlantedFrame(planted)).prefix}
    /\ files = [q \in {Sha1(PlantedFrame(planted))} |-> Compress(PlantedFrame(planted))]
    /\ hashed = NoHash /\ got = NoRead /\ nOps = 0
    /\ KvlmIdle /\ RaceIdle

NextFrame == \E sha \in DOMAIN files : ObjectRead(sha)

SpecFrame == InitFrame /\ [][NextFrame]_vars

----------------------------------------------------------------------------
(* Two object_write calls of one record and an object_read of its address, *)
(* interleaved statement by statement                                      *)

Writers == {"w1", "w2"}

RacePayloads == {<<>>, <<"a">>, <<"a", "a">>}

BlobOf(data) == [fmt |-> Blob, blobdata |-> data, kvlm |-> NoDoc]

\* the frame and the address both writers compute (lines 258-262)
TargetFrame == Frame(target.fmt, ObjSerialize(target))
TargetSha == Sha1(TargetFrame)

\* the store after object_write of each blob of a set, one call after another
RECURSIVE StoreAfter(_, _)
StoreAfter(ps, st) ==
    IF ps = {} THEN st
    ELSE LET p == CHOOSE q \in ps : TRUE
             w == ObjectWrite(BlobOf(p), st.dirs, st.files)
         IN StoreAfter(ps \ {p}, [dirs |-> w.dirs, files |-> w.files])

InitRace ==
    /\ \E p \in RacePayloads : target = BlobOf(p)
    /\ \E ps \in SUBSET RacePayloads :
          LET st == StoreAfter(ps, [dirs |-> {}, files |-> NoFiles])
          IN dirs = st.dirs /\ files = st.files
    /\ wpc = [w \in Writers |-> "start"]
    /\ rpc = "idle" /\ rpath = "unset" /\ rgot = NoRead /\ rafter = FALSE /\ nReads = 0
    /\ hashed = NoHash /\ got = NoRead /\ nOps = 0 /\ planted = NoPlant
    /\ KvlmIdle

\* repo_dir line 96: os.path.exists of the prefix directory
WriteDirExists(w) ==
    /\ wpc[w] = "start"
    /\ wpc' = [wpc EXCEPT ![w] = IF TargetSha.prefix \in dirs THEN "check" ELSE "makedirs"]
    /\ UNCHANGED <<dirs, files, target, rpc, rpath, rgot, rafter, nReads,
                   hashed, got, nOps, planted, kvars>>

\* repo_dir line 103: os.makedirs raises FileExistsError on an existing directory
WriteMakedirs(w) ==
    /\ wpc[w] = "makedirs"
    /\ IF TargetSha.prefix \in dirs
       THEN /\ wpc' = [wpc EXCEPT ![w] = "FileExistsError"]
            /\ dirs' = dirs
       ELSE /\ wpc' = [wpc EXCEPT ![w] = "check"]
            /\ dirs' = dirs \cup {TargetSha.prefix}
    /\ UNCHANGED <<files, target, rpc, rpath, rgot, rafter, nReads,
                   hashed, got, nOps, planted, kvars>>

\* line 268: os.path.exists of the object file; line 272 when it exists
WriteFileExists(w) ==
    /\ wpc[w] = "check"
    /\ wpc' = [wpc EXCEPT ![w] = IF TargetSha \in DOMAIN files THEN "returned" ELSE "open"]
    /\ UNCHANGED <<dirs, files, target, rpc, rpath, rgot, rafter, nReads,
                   hashed, got, nOps, planted, kvars>>

\* line 269: open(path, 'wb') creates the file, or empties the one there
WriteOpen(w) ==
    /\ wpc[w] = "open"
    /\ files' = [q \in DOMAIN files \cup {TargetSha} |-> IF q = TargetSha THEN <<>> ELSE files[q]]
    /\ wpc' = [wpc EXCEPT ![w] = "write"]
    /\ UNCHANGED <<dirs, target, rpc, rpath, rgot, rafter, nReads,
                   hashed, got, nOps, planted, kvars>>

\* lines 271-272: the compressed frame reaches the file as it is closed
WriteBytes(w) ==
    /\ wpc[w] = "write"
    /\ files' = [files EXCEPT ![TargetSha] = Compress(TargetFrame)]
    /\ wpc' = [wpc EXCEPT ![w] = "returned"]
    /\ UNCHANGED <<dirs, target, rpc, rpath, rgot, rafter, nReads,
                   hashed, got, nOps, planted, kvars>>

\* line 224: repo_file without mkdir gives the path, or None
ReadRepoFile ==
    /\ rpc = "idle"
    /\ nReads < MaxReads
    /\ nReads' = nReads + 1
    /\ rpath' = IF RepoFile(dirs, TargetSha, FALSE).found THEN "path" ELSE "None"
    /\ rafter' = \E w \in Writers : wpc[w] = "returned"
    /\ rgot' = NoRead
    /\ rpc' = "isfile"
    /\ UNCHANGED <<dirs, files, target, wpc, hashed, got, nOps, planted, kvars>>

\* lines 226-227: os.path.isfile(path)
ReadIsFile ==
    /\ rpc = "isfile"
    /\ IF rpath = "None"
       THEN /\ rgot' = [NoRead EXCEPT !.called = TRUE, !.sha = TargetSha, !.outcome = "TypeError"]
            /\ rpc' = "idle"
       ELSE IF TargetSha \notin DOMAIN files
       THEN /\ rgot' = [NoRead EXCEPT !.called = TRUE, !.sha = TargetSha, !.outcome = "NotFound"]
            /\ rpc' = "idle"
       ELSE /\ rgot' = rgot
            /\ rpc' = "open"
    /\ UNCHANGED <<dirs, files, target, wpc, rpath, rafter, nReads,
                   hashed, got, nOps, planted, kvars>>

\* lines 229-254: read the file as it now is and decode it
ReadDecode ==
    /\ rpc = "open"
    /\ LET r == DecodeStored(files[TargetSha])
       IN rgot' = [NoRead EXCEPT !.called = TRUE, !.sha = TargetSha,
                                 !.outcome = r.outcome, !.obj = r.obj]
    /\ rpc' = "idle"
    /\ UNCHANGED <<dirs, files, target, wpc, rpath, rafter, nReads,
                   hashed, got, nOps, planted, kvars>>

NextRace ==
    \/ \E w \in Writers :
          WriteDirExists(w) \/ WriteMakedirs(w) \/ WriteFileExists(w) \/ WriteOpen(w) \/ WriteBytes(w)
    \/ ReadRepoFile \/ ReadIsFile \/ ReadDecode

SpecRace == InitRace /\ [][NextRace]_vars

\* the same calls on a store that already holds the prefix directory of the
\* address (an earlier object_write made it), where os.makedirs is never reached
InitReadRace == InitRace /\ TargetSha.prefix \in dirs

NextReadRace ==
    \/ \E w \in Writers :
          WriteDirExists(w) \/ WriteFileExists(w) \/ WriteOpen(w) \/ WriteBytes(w)
    \/ ReadRepoFile \/ ReadIsFile \/ ReadDecode

SpecReadRace == InitReadRace /\ [][NextReadRace]_vars

----------------------------------------------------------------------------
(* Claims about the KVLM codec *)

Accepted == kpc \in {"done", "serialized", "reparsed"}

\* C3: for every payload kvlm_parse accepts, kvlm_serialize(kvlm_parse(raw))
\* is byte-identical to raw
C3_ByteRoundTrip == kpc \in {"serialized", "reparsed"} => ser = raw

\* C4: for every document d returned by kvlm_parse,
\* kvlm_parse(kvlm_serialize(d)) returns a document equal to d
C4_DocRoundTrip == kpc = "reparsed" => reparsed = [outcome |-> "ok", doc |-> ret]

\* the header lines of the history, written back as they stood in the input
RECURSIVE HeaderText(_)
HeaderText(fs) ==
    IF fs = <<>> THEN <<>>
    ELSE Head(fs).key \o <<SP>> \o Head(fs).text \o <<NL>> \o HeaderText(Tail(fs))

\* the keys of the history in order of first occurrence
RECURSIVE FirstKeys(_, _)
FirstKeys(fs, seen) ==
    IF fs = <<>> THEN <<>>
    ELSE IF Head(fs).key \in seen THEN FirstKeys(Tail(fs), seen)
         ELSE <<Head(fs).key>> \o FirstKeys(Tail(fs), seen \cup {Head(fs).key})

\* the value texts the history holds for key k, in input order
RECURSIVE TextsOf(_, _)
TextsOf(fs, k) ==
    IF fs = <<>> THEN <<>>
    ELSE (IF Head(fs).key = k THEN <<Head(fs).text>> ELSE <<>>) \o TextsOf(Tail(fs), k)

\* C9: for every accepted payload the header lines consumed are the input's
\* header lines in order; the document's keys are in order of first
\* occurrence; a key occurring once holds its single value and a key
\* occurring n >= 2 times a sequence of its n values in input order; and each
\* value is the input text with every newline+space turned into a newline
C9_MultimapOrder ==
    Accepted =>
        /\ HeaderText(fields) \o <<NL>> \o ret.msg = raw
        /\ [i \in 1..Len(ret.fields) |-> ret.fields[i].key] = FirstKeys(fields, {})
        /\ \A i \in 1..Len(ret.fields) :
              LET e == ret.fields[i]
                  texts == TextsOf(fields, e.key)
              IN /\ Len(e.vals) = Len(texts)
                 /\ e.list = (Len(texts) >= 2)
                 /\ \A j \in 1..Len(texts) : Fold(e.vals[j]) = texts[j]

\* a key repeated with another key's line in between, two different values,
\* and a value written with a continuation line
C9_Witness ==
    /\ Accepted
    /\ \E i, j, k \in 1..Len(fields) :
          /\ i < j /\ j < k
          /\ fields[i].key = fields[k].key
          /\ fields[j].key # fields[i].key
          /\ fields[i].text # fields[k].text
    /\ \E i \in 1..Len(ret.fields) : \E v \in DOMAIN ret.fields[i].vals :
          \E n \in 1..Len(ret.fields[i].vals[v]) : ret.fields[i].vals[v][n] = NL

\* C10: for every finite payload kvlm_parse terminates, returning a document
\* or failing with an error
C10_Terminates == <>(kpc \in KvlmFinal)

----------------------------------------------------------------------------
(* Claims about the store *)

\* C1: for every payload b and each of the four type tags, object_hash of b
\* into the store succeeds and object_read of the returned address yields a
\* record whose serialize() equals b
C1_ObjectRoundTrip ==
    /\ hashed.called => hashed.outcome = "ok"
    /\ (got.called /\ hashed.called /\ got.sha = hashed.sha) =>
          (got.outcome = "ok" /\ ObjSerialize(got.obj) = hashed.data)

\* C2: an object_write that follows an object_write of the same (type,
\* payload) returns the same address and leaves every directory and file of
\* the store as the first call left it
C2_IdempotentWrite ==
    [][(/\ nOps' = nOps + 1
        /\ hashed.called /\ hashed.outcome = "ok"
        /\ hashed'.fmt = hashed.fmt /\ hashed'.data = hashed.data)
       => (/\ hashed'.outcome = "ok"
           /\ hashed'.sha = hashed.sha
           /\ files' = files
           /\ dirs' = dirs)]_vars

\* the same record written twice in a row, into a store holding its file
C2_Witness == hashed.again /\ hashed.outcome = "ok" /\ hashed.sha \in DOMAIN files

\* C5: object_read of an address with no stored file, whether or not its
\* prefix directory exists, ends with the not-found outcome, returns no
\* record and leaves the store unchanged
C5_AbsentIsNotFound ==
    (got.called /\ got.absent) => (got.outcome = "NotFound" /\ got.obj = NoObj /\ ~got.changed)

\* C6: object_read of a stored frame whose length field differs from the
\* number of bytes after the first NUL fails as malformed whatever the type
\* tag; with a matching length and a tag outside the four it fails as an
\* unknown type
C6_MalformedLength ==
    got.called =>
        LET bytes == PlantedFrame(planted)
            after == Len(bytes) - Find(bytes, NUL, 0) - 1
        IN /\ planted.size # after => (got.outcome = "Malformed" /\ got.obj = NoObj)
           /\ (planted.size = after /\ planted.fmt \notin KnownTags) =>
                 (got.outcome = "UnknownType" /\ got.obj = NoObj)

\* a wrong length under an unknown tag, reported as malformed
C6_Witness ==
    /\ got.called /\ got.outcome = "Malformed"
    /\ planted.fmt \notin KnownTags
    /\ planted.size = Len(planted.payload) + 1

----------------------------------------------------------------------------
(* Claims about concurrent calls *)

\* C7: in every interleaving of two object_write calls of the same record
\* neither call fails, and once both have returned the store holds at the
\* address one file with the complete compressed frame
C7_HarmlessWriterRace ==
    /\ \A w \in Writers : wpc[w] # "FileExistsError"
    /\ (\A w \in Writers : wpc[w] = "returned") =>
          (TargetSha \in DOMAIN files /\ files[TargetSha] = Compress(TargetFrame))

\* C8: an object_read interleaved with object_write calls of its address
\* ends either not-found or with the complete record, never anything else,
\* and a read begun after an object_write of the address returned succeeds
C8_ReadWholeOrNotFound ==
    rgot.called =>
        /\ rgot.outcome \in {"NotFound", "ok"}
        /\ rgot.outcome = "ok" => rgot.obj = target
        /\ rafter => rgot.outcome = "ok"

====
